---- MODULE Spec2Model ----
(***************************************************************************)
(* Identity and credential lifecycle of the FastAPI boilerplate:           *)
(* bearer tokens (api/v1/services/user.py), registration and login         *)
(* (api/v1/routes/auth.py, api/v1/services/auth.py) over the users table   *)
(* (api/v1/models/user.py).                                                *)
(*                                                                         *)
(* Time is counted in ticks of 1/Res second, so that the truncation of a   *)
(* datetime to whole seconds done by the JWT codec is part of the model.   *)
(***************************************************************************)
EXTENDS Integers, FiniteSets, Sequences, TLC

\* ---------------------------------------------------------------- bounds
Res == 2            \* clock ticks per second
MaxTime == 4        \* last clock tick explored
AccessLife == 1     \* settings.ACCESS_TOKEN_EXPIRE_MINUTES, in seconds here
RefreshLife == 1    \* settings.JWT_REFRESH_EXPIRY, in seconds here
MaxUsers == 2       \* rows the users table can hold
MaxMinted == 4      \* bearer tokens kept in the issuance log

Emails == {"a@x.io", "b@x.io"}
Passwords == {"pw1", "pw2"}     \* passwords a client can submit
NewPasswords == {"pw1"}         \* passwords accounts are registered with
Salts == {"s1"}                 \* salts the password hasher can draw
None == 0           \* Python None for ids and timestamps

VARIABLES
    users,      \* committed rows of the users table: id -> row
    now,        \* wall clock, in ticks
    minted,     \* log of the bearer tokens issued so far: [tok, at, by, sub]
    cookie,     \* the client's refresh_token cookie
    resp,       \* outcome of the last request
    calls,      \* requests in flight, for handlers followed statement by statement
    links,      \* log of the link tokens mailed so far: [tok, at, by]
    connections,    \* routes/user.py: number of streams opened so far
    state_map,      \* routes/user.py: connection key -> [update_state, active_state]
    generators,     \* the open streams' generators: position, key, last event
    listeners,      \* the ORM change listeners running in worker threads
    notifications   \* committed rows of the notifications table: id -> row

\* the state of the live connection registry
registry == <<connections, state_map, generators, listeners>>

vars == <<users, now, minted, cookie, resp, calls, links, registry, notifications>>

\* ------------------------------------------------------- password hashing
\* bcrypt digest of (salt, password): injective, and never the password
Digest(salt, password) == <<"bcrypt", salt, password>>

\* pwd_context.hash: the salt is drawn per call and embedded in the output
hash_password(password, salt) ==
    [salt |-> salt, digest |-> Digest(salt, password)]

\* api.utils.password_utils.hash_password, used by services/auth.py
password_utils_hash_password(password, salt) ==
    [salt |-> salt, digest |-> Digest(salt, password)]

NoHash == [salt |-> "", digest |-> <<"none", "", "">>]

\* pwd_context.verify: False for a missing hash, otherwise recompute and compare
verify_password(password, hash) ==
    /\ hash # NoHash
    /\ Digest(hash.salt, password) = hash.digest

\* ------------------------------------------------------------ JWT codec
\* calendar.timegm(dt.utctimetuple()): a datetime truncated to whole seconds
TimeGm(t) == t \div Res

NoToken   == [user_id |-> None, exp |-> 0, type |-> "", sig |-> "absent"]
Malformed == [user_id |-> None, exp |-> 0, type |-> "", sig |-> "malformed"]

\* jwt.encode(data, SECRET_KEY, ALGORITHM): deterministic in the claim set
jwt_encode(user_id, expires, type) ==
    [user_id |-> user_id, exp |-> TimeGm(expires), type |-> type, sig |-> "good"]

\* jwt.decode rejecting a token already in the second its exp names
jwt_decode_early(token, t) ==
    IF token.sig = "absent" THEN "AttributeError"
    ELSE IF token.sig # "good" THEN "JWTError"
    ELSE IF token.exp <= TimeGm(t) THEN "JWTError"
    ELSE "payload"

\* jwt.decode with the exp claim left unchecked
jwt_decode_no_exp(token, t) ==
    IF token.sig = "absent" THEN "AttributeError"
    ELSE IF token.sig # "good" THEN "JWTError"
    ELSE "payload"

\* jwt.decode(token, SECRET_KEY, algorithms): signature first, then exp
jwt_decode(token, t) ==
    IF token.sig = "absent" THEN "AttributeError"
    ELSE IF token.sig # "good" THEN "JWTError"
    ELSE IF token.exp < TimeGm(t) THEN "JWTError"
    ELSE "payload"

create_access_token(user_id, t) ==
    jwt_encode(user_id, t + AccessLife * Res, "access")

create_refresh_token(user_id, t) ==
    jwt_encode(user_id, t + RefreshLife * Res, "refresh")

\* ------------------------------------------------------------ exceptions
HTTPException(status, detail) == [status |-> status, detail |-> detail]

CredentialsException == HTTPException(401, "Could not validate credentials")
RefreshExpired       == HTTPException(401, "Refresh token expired")
ServerError          == HTTPException(500, "Internal Server Error")

Raise(exc) == [ok |-> FALSE, id |-> None, exc |-> exc]
Return(id) == [ok |-> TRUE, id |-> id, exc |-> HTTPException(200, "")]

\* verify_access_token without the check of the type claim
verify_access_token_any_type(access_token, credentials_exception, t) ==
    LET d == jwt_decode(access_token, t) IN
    IF d = "JWTError" THEN Raise(credentials_exception)
    ELSE IF d = "AttributeError" THEN Raise(ServerError)
    ELSE IF access_token.user_id = None THEN Raise(credentials_exception)
    ELSE Return(access_token.user_id)

verify_access_token(access_token, credentials_exception, t) ==
    LET d == jwt_decode(access_token, t) IN
    IF d = "JWTError" THEN Raise(credentials_exception)
    ELSE IF d = "AttributeError" THEN Raise(ServerError)
    ELSE IF access_token.user_id = None THEN Raise(credentials_exception)
    ELSE IF access_token.type = "refresh"
         THEN Raise(HTTPException(400, "Refresh token not allowed"))
    ELSE Return(access_token.user_id)

\* verify_refresh_token accepting only the refresh token issued last
verify_refresh_token_latest(refresh_token, credentials_exception, t) ==
    LET d == jwt_decode(refresh_token, t) IN
    IF d \in {"JWTError", "AttributeError"} THEN Raise(credentials_exception)
    ELSE IF refresh_token.user_id = None THEN Raise(credentials_exception)
    ELSE IF refresh_token.type = "access"
         THEN Raise(HTTPException(400, "Access token not allowed"))
    ELSE IF refresh_token # cookie THEN Raise(credentials_exception)
    ELSE Return(refresh_token.user_id)

verify_refresh_token(refresh_token, credentials_exception, t) ==
    LET d == jwt_decode(refresh_token, t) IN
    IF d \in {"JWTError", "AttributeError"} THEN Raise(credentials_exception)
    ELSE IF refresh_token.user_id = None THEN Raise(credentials_exception)
    ELSE IF refresh_token.type = "access"
         THEN Raise(HTTPException(400, "Access token not allowed"))
    ELSE Return(refresh_token.user_id)

\* ---------------------------------------------------------- users table
\* a row of api/v1/models/user.py (the columns the credential lifecycle reads);
\* last_login has server_default func.now()
User(email, password, t) ==
    [email |-> email, password |-> password, last_login |-> t,
     is_active |-> TRUE, is_superadmin |-> FALSE, is_deleted |-> FALSE]

\* db.query(User).filter(User.email == email): ids of the matching rows
ByEmail(email) == {i \in DOMAIN users : users[i].email = email}

\* id of the row a freshly added User gets
NextId == Len(users) + 1

\* ------------------------------------------------------------- responses
NoTokens == <<NoToken, NoToken>>
NoEmail == ""

\* what a request was sent (token, email) and what it got back
Response(op, token, email, status, detail, id, tokens, last_login) ==
    [op |-> op, token |-> token, email |-> email,
     status |-> status, detail |-> detail, id |-> id,
     access |-> tokens[1], refresh |-> tokens[2], last_login |-> last_login]

Failure(op, token, email, exc) ==
    Response(op, token, email, exc.status, exc.detail, None, NoTokens, None)

\* an account as a handler holds it when it serialises it into a response body
Row(session, id) ==
    [id |-> id, is_active |-> session[id].is_active,
     last_login |-> session[id].last_login]

\* a response whose body carries the accounts in rows
Shown(response, rows) == [rows |-> rows] @@ response

\* the issuance log after create_access_token and create_refresh_token made
\* tokens[1] and tokens[2] for subject sub at time t
Log(tokens, t, sub) ==
    minted \cup {[tok |-> tokens[1], at |-> t, by |-> "access", sub |-> sub],
                 [tok |-> tokens[2], at |-> t, by |-> "refresh", sub |-> sub]}

CanMint(tokens, sub) == Cardinality(Log(tokens, now, sub)) <= MaxMinted

\* tokens a client can present: anything issued, its cookie with a tampered
\* signature, garbage, and a well-signed access token whose subject is not
\* in the table
Forged(tok) == [tok EXCEPT !.sig = "forged"]
Presentable ==
    {m.tok : m \in minted} \cup {Forged(cookie), Malformed}
    \cup {jwt_encode(MaxUsers + 1, now, "access")}

\* ------------------------------------------------------------------ Init
Init ==
    /\ users = <<>>
    /\ now = 0
    /\ minted = {}
    /\ cookie = NoToken
    /\ resp = Response("start", NoToken, NoEmail, 200, "", None, NoTokens, None)
    /\ calls = <<>>
    /\ links = {}
    /\ connections = 0
    /\ state_map = <<>>
    /\ generators = <<>>
    /\ listeners = <<>>
    /\ notifications = <<>>

\* the wall clock advances
Tick ==
    /\ now < MaxTime
    /\ now' = now + 1
    /\ UNCHANGED <<users, minted, cookie, resp, calls, links, registry, notifications>>

\* UserService.create without its duplicate check
create_unchecked(email, password, salt) ==
    [ok |-> TRUE, id |-> NextId,
     table |-> Append(users, User(email, hash_password(password, salt), now)),
     exc |-> HTTPException(201, "User created successfully")]

\* UserService.create: duplicate check, hash, add, commit
create(email, password, salt) ==
    IF ByEmail(email) # {}
    THEN [ok |-> FALSE, id |-> None, table |-> users,
          exc |-> HTTPException(400, "User with this email or username already exists")]
    ELSE [ok |-> TRUE, id |-> NextId,
          table |-> Append(users, User(email, hash_password(password, salt), now)),
          exc |-> HTTPException(201, "User created successfully")]

\* POST /auth/register
RouteRegister(email, password, salt) ==
    LET r == create(email, password, salt)
        tokens == <<create_access_token(r.id, now), create_refresh_token(r.id, now)>>
    IN  /\ r.ok => (Len(users) < MaxUsers /\ CanMint(tokens, r.id))
        /\ users' = r.table
        /\ IF r.ok
           THEN /\ minted' = Log(tokens, now, r.id)
                /\ cookie' = tokens[2]
                /\ resp' = Response("register", NoToken, email, 201, r.exc.detail,
                                    r.id, tokens, r.table[r.id].last_login)
           ELSE /\ resp' = Failure("register", NoToken, email, r.exc)
                /\ UNCHANGED <<minted, cookie>>
        /\ UNCHANGED <<now, calls, links, registry, notifications>>

\* services/auth.py register: duplicate check, hash, add, commit, return the user
register(email, password, salt) ==
    IF ByEmail(email) # {}
    THEN [ok |-> FALSE, id |-> None, table |-> users,
          exc |-> HTTPException(400, "EMAIL_ALREADY_EXISTS")]
    ELSE [ok |-> TRUE, id |-> NextId,
          table |-> Append(users, User(email, password_utils_hash_password(password, salt), now)),
          exc |-> HTTPException(201, "")]

ServiceRegister(email, password, salt) ==
    LET r == register(email, password, salt)
    IN  /\ r.ok => Len(users) < MaxUsers
        /\ users' = r.table
        /\ resp' = IF r.ok
                   THEN Response("auth.register", NoToken, email, 201, "", r.id,
                                 NoTokens, r.table[r.id].last_login)
                   ELSE Failure("auth.register", NoToken, email, r.exc)
        /\ UNCHANGED <<now, minted, cookie, calls, links, registry, notifications>>

\* User.update_last_login on the session's copy of row id (nothing is written
\* to the table until the session commits)
update_last_login(table, id) == [table EXCEPT ![id].last_login = now]

\* authenticate_user telling a missing account from a wrong password
authenticate_user_leaky(email, password) ==
    IF ByEmail(email) = {}
    THEN [ok |-> FALSE, id |-> None, session |-> users,
          exc |-> HTTPException(404, "User not found")]
    ELSE LET id == CHOOSE i \in ByEmail(email) : TRUE IN
         IF ~verify_password(password, users[id].password)
         THEN [ok |-> FALSE, id |-> None, session |-> users,
               exc |-> HTTPException(400, "Invalid user credentials")]
         ELSE [ok |-> TRUE, id |-> id, session |-> update_last_login(users, id),
               exc |-> HTTPException(200, "Login successful")]

\* authenticate_user refusing an account that is soft-deleted
authenticate_user_not_deleted(email, password) ==
    IF {i \in ByEmail(email) : ~users[i].is_deleted} = {}
    THEN [ok |-> FALSE, id |-> None, session |-> users,
          exc |-> HTTPException(400, "Invalid user credentials")]
    ELSE LET id == CHOOSE i \in ByEmail(email) : ~users[i].is_deleted IN
         IF ~verify_password(password, users[id].password)
         THEN [ok |-> FALSE, id |-> None, session |-> users,
               exc |-> HTTPException(400, "Invalid user credentials")]
         ELSE [ok |-> TRUE, id |-> id, session |-> update_last_login(users, id),
               exc |-> HTTPException(200, "Login successful")]

\* UserService.authenticate_user: returns the session's view of the table
authenticate_user(email, password) ==
    IF ByEmail(email) = {}
    THEN [ok |-> FALSE, id |-> None, session |-> users,
          exc |-> HTTPException(400, "Invalid user credentials")]
    ELSE LET id == CHOOSE i \in ByEmail(email) : TRUE IN
         IF ~verify_password(password, users[id].password)
         THEN [ok |-> FALSE, id |-> None, session |-> users,
               exc |-> HTTPException(400, "Invalid user credentials")]
         ELSE [ok |-> TRUE, id |-> id, session |-> update_last_login(users, id),
               exc |-> HTTPException(200, "Login successful")]

\* POST /auth/login: authenticate, mint the pair, set the cookie; the handler
\* never commits and get_db closes the session, dropping its pending changes
login(email, password) ==
    LET r == authenticate_user(email, password)
        tokens == <<create_access_token(r.id, now), create_refresh_token(r.id, now)>>
    IN  /\ r.ok => CanMint(tokens, r.id)
        /\ IF r.ok
           THEN /\ minted' = Log(tokens, now, r.id)
                /\ cookie' = tokens[2]
                /\ resp' = Response("login", NoToken, email, 200, r.exc.detail, r.id,
                                    tokens, r.session[r.id].last_login)
           ELSE /\ resp' = Failure("login", NoToken, email, r.exc)
                /\ UNCHANGED <<minted, cookie>>
        /\ UNCHANGED <<users, now, calls, links, registry, notifications>>

\* UserService.get_current_user
get_current_user(access_token) ==
    LET token == verify_access_token(access_token, CredentialsException, now) IN
    IF ~token.ok THEN [ok |-> FALSE, id |-> None, session |-> users, exc |-> token.exc]
    ELSE IF token.id \notin DOMAIN users
         THEN [ok |-> FALSE, id |-> None, session |-> users, exc |-> CredentialsException]
    ELSE [ok |-> TRUE, id |-> token.id, session |-> update_last_login(users, token.id),
          exc |-> HTTPException(200, "")]

\* GET /users/me
get_current_user_details(access_token) ==
    LET r == get_current_user(access_token)
    IN  /\ resp' = IF r.ok
                   THEN Shown(Response("me", access_token, NoEmail, 200,
                                       "User details retrieved successfully",
                                       r.id, NoTokens, r.session[r.id].last_login),
                              {Row(r.session, r.id)})
                   ELSE Failure("me", access_token, NoEmail, r.exc)
        /\ UNCHANGED <<users, now, minted, cookie, calls, links, registry, notifications>>

\* POST /auth/logout: only the client's cookie is deleted
logout(access_token) ==
    LET r == get_current_user(access_token)
    IN  /\ IF r.ok
           THEN /\ cookie' = NoToken
                /\ resp' = Response("logout", access_token, NoEmail, 200,
                                    "User logged put successfully", r.id, NoTokens, None)
           ELSE /\ resp' = Failure("logout", access_token, NoEmail, r.exc)
                /\ UNCHANGED cookie
        /\ UNCHANGED <<users, now, minted, calls, links, registry, notifications>>

\* refresh_access_token minting two access tokens
refresh_access_token_two_access(current_refresh_token) ==
    LET token == verify_refresh_token(current_refresh_token, RefreshExpired, now) IN
    IF token.ok
    THEN [ok |-> TRUE, id |-> token.id, exc |-> token.exc,
          tokens |-> <<create_access_token(token.id, now),
                       create_access_token(token.id, now)>>]
    ELSE [ok |-> FALSE, id |-> None, exc |-> token.exc, tokens |-> NoTokens]

\* UserService.refresh_access_token
refresh_access_token(current_refresh_token) ==
    LET token == verify_refresh_token(current_refresh_token, RefreshExpired, now) IN
    IF token.ok
    THEN [ok |-> TRUE, id |-> token.id, exc |-> token.exc,
          tokens |-> <<create_access_token(token.id, now),
                       create_refresh_token(token.id, now)>>]
    ELSE [ok |-> FALSE, id |-> None, exc |-> token.exc, tokens |-> NoTokens]

\* POST /auth/refresh-access-token with the request's refresh_token cookie
RouteRefresh(current_refresh_token) ==
    LET r == refresh_access_token(current_refresh_token)
    IN  /\ r.ok => CanMint(r.tokens, r.id)
        /\ IF r.ok
           THEN /\ minted' = Log(r.tokens, now, r.id)
                /\ cookie' = r.tokens[2]
                /\ resp' = Response("refresh", current_refresh_token, NoEmail, 200,
                                    "Tokens refreshed successfully", r.id, r.tokens, None)
           ELSE /\ resp' = Failure("refresh", current_refresh_token, NoEmail, r.exc)
                /\ UNCHANGED <<minted, cookie>>
        /\ UNCHANGED <<users, now, calls, links, registry, notifications>>

Next ==
    \/ Tick
    \/ \E e \in Emails, p \in NewPasswords, s \in Salts : RouteRegister(e, p, s)
    \/ \E e \in Emails, p \in NewPasswords, s \in Salts : ServiceRegister(e, p, s)
    \/ \E e \in Emails, p \in Passwords : login(e, p)
    \/ \E t \in Presentable : get_current_user_details(t)
    \/ \E t \in Presentable : logout(t)
    \/ \E t \in Presentable \cup {cookie} : RouteRefresh(t)

Spec == Init /\ [][Next]_vars

\* ------------------------------------------------------------ account store
\* (api/v1/services/user.py, api/v1/services/profile.py,
\*  api/v1/services/google_oauth.py, api/v1/routes/user.py)
ActiveLife == 1     \* the window of User.update_active_status, in seconds here
StoreTime == 2      \* last clock tick explored for the account store

\* a password column holding the submitted string itself
Verbatim(password) == [salt |-> "", digest |-> <<"verbatim", "", password>>]

\* no two rows of the table carry one email
Unique(table) ==
    \A i, j \in DOMAIN table : table[i].email = table[j].email => i = j

\* db.commit() on a table whose email column has no unique constraint
commit_no_unique(session) == [ok |-> TRUE, table |-> session]

\* db.commit(): email is Column(String, unique=True), so the database raises
\* IntegrityError and keeps the committed rows when the flush would leave two
\* rows with one email
commit(session) ==
    IF Unique(session) THEN [ok |-> TRUE, table |-> session]
    ELSE [ok |-> FALSE, table |-> users]

\* User.update_active_status on the session's copy of row id
update_active_status(table, id) ==
    [table EXCEPT ![id].is_active = (table[id].last_login >= now - ActiveLife * Res)]

\* UserService.get_current_super_admin
get_current_super_admin(token) ==
    LET r == get_current_user(token) IN
    IF r.ok /\ ~r.session[r.id].is_superadmin
    THEN [ok |-> FALSE, id |-> None, session |-> r.session,
          exc |-> HTTPException(403, "You do not have permission to access this resource")]
    ELSE r

\* UserService.create_admin: duplicate check, hash, add, commit, then
\* is_superadmin = True and commit
create_admin(email, password, salt) ==
    IF ByEmail(email) # {}
    THEN [ok |-> FALSE, id |-> None, table |-> users,
          exc |-> HTTPException(400, "User with this email already exists")]
    ELSE [ok |-> TRUE, id |-> NextId,
          table |-> Append(users, [User(email, hash_password(password, salt), now)
                                   EXCEPT !.is_superadmin = TRUE]),
          exc |-> HTTPException(201, "User created successfully")]

\* POST /auth/register-super-admin
register_as_super_admin(email, password, salt) ==
    LET r == create_admin(email, password, salt)
        tokens == <<create_access_token(r.id, now), create_refresh_token(r.id, now)>>
    IN  /\ r.ok => (Len(users) < MaxUsers /\ CanMint(tokens, r.id))
        /\ users' = r.table
        /\ IF r.ok
           THEN /\ minted' = Log(tokens, now, r.id)
                /\ cookie' = tokens[2]
                /\ resp' = Response("register-super-admin", NoToken, email, 201,
                                    r.exc.detail, r.id, tokens, r.table[r.id].last_login)
           ELSE /\ resp' = Failure("register-super-admin", NoToken, email, r.exc)
                /\ UNCHANGED <<minted, cookie>>
        /\ UNCHANGED <<now, calls, links, registry, notifications>>

\* UserService.super_admin_create_user on the caller's session: only a truthy
\* password is hashed; every exception, the duplicate's 400 included, is
\* re-raised as a bare Exception after a rollback
super_admin_create_user(session, email, password, salt) ==
    IF ByEmail(email) # {}
    THEN [ok |-> FALSE, id |-> None, table |-> users, exc |-> ServerError]
    ELSE LET stored == IF password # "" THEN hash_password(password, salt)
                       ELSE Verbatim(password)
             c == commit(Append(session, User(email, stored, now)))
         IN  IF c.ok
             THEN [ok |-> TRUE, id |-> NextId, table |-> c.table,
                   exc |-> HTTPException(201, "User created successfully")]
             ELSE [ok |-> FALSE, id |-> None, table |-> c.table, exc |-> ServerError]

\* POST /users
admin_registers_user(token, email, password, salt) ==
    LET a == get_current_super_admin(token)
        r == super_admin_create_user(a.session, email, password, salt)
    IN  /\ (a.ok /\ r.ok) => Len(users) < MaxUsers
        /\ IF ~a.ok
           THEN /\ resp' = Failure("admin-create", token, email, a.exc)
                /\ UNCHANGED users
           ELSE /\ users' = r.table
                /\ resp' = IF r.ok
                           THEN Response("admin-create", token, email, 201, r.exc.detail,
                                         r.id, NoTokens, r.table[r.id].last_login)
                           ELSE Failure("admin-create", token, email, r.exc)
        /\ UNCHANGED <<now, minted, cookie, calls, links, registry, notifications>>

\* GoogleOauthServices.create_new_user: a row with no password, add, commit
create_new_user(session, email) ==
    LET c == commit(Append(session, User(email, NoHash, now)))
    IN  IF c.ok
        THEN [ok |-> TRUE, id |-> Len(session) + 1, table |-> c.table,
              exc |-> HTTPException(200, "Login successful")]
        ELSE [ok |-> FALSE, id |-> None, table |-> c.table,
              exc |-> HTTPException(500, "Error")]

\* POST /auth/google, the identity provider having vouched for email:
\* look the account up by email, create it when absent, mint the pair
google_login(email) ==
    LET found == ByEmail(email)
        r == IF found # {}
             THEN [ok |-> TRUE, id |-> CHOOSE i \in found : TRUE, table |-> users,
                   exc |-> HTTPException(200, "Login successful")]
             ELSE create_new_user(users, email)
        tokens == <<create_access_token(r.id, now), create_refresh_token(r.id, now)>>
    IN  /\ r.ok => (Len(r.table) <= MaxUsers /\ CanMint(tokens, r.id))
        /\ users' = r.table
        /\ IF r.ok
           THEN /\ minted' = Log(tokens, now, r.id)
                /\ cookie' = tokens[2]
                /\ resp' = Response("google", NoToken, email, 200, r.exc.detail,
                                    r.id, tokens, r.table[r.id].last_login)
           ELSE /\ resp' = Failure("google", NoToken, email, r.exc)
                /\ UNCHANGED <<minted, cookie>>
        /\ UNCHANGED <<now, calls, links, registry, notifications>>

\* UserService.fetch on the session: 404 for an unknown id, then
\* update_active_status; a deleted row is returned as None
fetch(session, id) ==
    IF id \notin DOMAIN session
    THEN [ok |-> FALSE, id |-> None, session |-> session,
          exc |-> HTTPException(404, "User does not exist")]
    ELSE [ok |-> TRUE,
          id |-> IF session[id].is_deleted THEN None ELSE id,
          session |-> update_active_status(session, id),
          exc |-> HTTPException(200, "")]

\* UserService.update for current user cur: duplicate check on the submitted
\* email, fetch the target, set the submitted fields, commit, refresh.
\* email = NoEmail stands for a request that leaves the email unset.
update(session, cur, email, id) ==
    IF ByEmail(email) # {}
    THEN [ok |-> FALSE, id |-> None, table |-> users,
          exc |-> HTTPException(400, "User with this email or username already exists")]
    ELSE LET f == fetch(session, IF session[cur].is_superadmin /\ id # None
                                 THEN id ELSE cur)
         IN  IF ~f.ok THEN [ok |-> FALSE, id |-> None, table |-> users, exc |-> f.exc]
             ELSE IF f.id = None
             THEN [ok |-> FALSE, id |-> None, table |-> users, exc |-> ServerError]
             ELSE LET c == commit(IF email = NoEmail THEN f.session
                                  ELSE [f.session EXCEPT ![f.id].email = email])
                  IN  IF c.ok
                      THEN [ok |-> TRUE, id |-> f.id, table |-> c.table,
                            exc |-> HTTPException(200, "User Updated Successfully")]
                      ELSE [ok |-> FALSE, id |-> None, table |-> c.table,
                            exc |-> ServerError]

\* PATCH /users/{user_id}
update_user(token, id, email) ==
    LET a == get_current_super_admin(token)
        r == update(a.session, a.id, email, id)
    IN  /\ IF ~a.ok
           THEN /\ resp' = Failure("update-user", token, email, a.exc)
                /\ UNCHANGED users
           ELSE /\ users' = r.table
                /\ resp' = IF r.ok
                           THEN Response("update-user", token, email, 200, r.exc.detail,
                                         r.id, NoTokens, r.table[r.id].last_login)
                           ELSE Failure("update-user", token, email, r.exc)
        /\ UNCHANGED <<now, minted, cookie, calls, links, registry, notifications>>

\* PATCH /users
update_current_user(token, email) ==
    LET a == get_current_user(token)
        r == update(a.session, a.id, email, None)
    IN  /\ IF ~a.ok
           THEN /\ resp' = Failure("update-me", token, email, a.exc)
                /\ UNCHANGED users
           ELSE /\ users' = r.table
                /\ resp' = IF r.ok
                           THEN Response("update-me", token, email, 200, r.exc.detail,
                                         r.id, NoTokens, r.table[r.id].last_login)
                           ELSE Failure("update-me", token, email, r.exc)
        /\ UNCHANGED <<now, minted, cookie, calls, links, registry, notifications>>

\* ProfileService.update for user_id: the submitted email is written to the
\* user row with no lookup; an IntegrityError at commit becomes a 409
ProfileService_update(session, email, user_id) ==
    LET c == commit(IF email = NoEmail THEN session
                    ELSE [session EXCEPT ![user_id].email = email])
    IN  IF c.ok
        THEN [ok |-> TRUE, id |-> user_id, table |-> c.table,
              exc |-> HTTPException(200, "User Profile Updated Successfully!!!")]
        ELSE [ok |-> FALSE, id |-> None, table |-> c.table,
              exc |-> HTTPException(409, "Email address already in use")]

\* PUT /profile
update_user_profile(token, email) ==
    LET a == get_current_user(token)
        r == ProfileService_update(a.session, email, a.id)
    IN  /\ IF ~a.ok
           THEN /\ resp' = Failure("update-profile", token, email, a.exc)
                /\ UNCHANGED users
           ELSE /\ users' = r.table
                /\ resp' = IF r.ok
                           THEN Response("update-profile", token, email, 200, r.exc.detail,
                                         r.id, NoTokens, r.table[r.id].last_login)
                           ELSE Failure("update-profile", token, email, r.exc)
        /\ UNCHANGED <<now, minted, cookie, calls, links, registry, notifications>>

\* access tokens a client holds
Held == {m.tok : m \in {n \in minted : n.by = "access"}}

UpdateEmails == Emails \cup {NoEmail}

\* the wall clock advances while the account store is exercised
StoreTick == now < StoreTime /\ Tick

StoreNext ==
    \/ StoreTick
    \/ \E e \in Emails, p \in NewPasswords, s \in Salts : RouteRegister(e, p, s)
    \/ \E e \in Emails, p \in NewPasswords, s \in Salts : register_as_super_admin(e, p, s)
    \/ \E t \in Held, e \in Emails, p \in NewPasswords \cup {""}, s \in Salts :
           admin_registers_user(t, e, p, s)
    \/ \E e \in Emails : google_login(e)
    \/ \E t \in Held, i \in 1..MaxUsers, e \in UpdateEmails : update_user(t, i, e)
    \/ \E t \in Held, e \in UpdateEmails : update_current_user(t, e)
    \/ \E t \in Held, e \in UpdateEmails : update_user_profile(t, e)

StoreSpec == Init /\ [][StoreNext]_vars

\* --------------------------------------- external-identity login, in flight
NumCalls == 2       \* google_login requests followed statement by statement

\* a request in flight: where it stands, what its lookup returned, its answer
Call(pc, email, user, status, id, tokens) ==
    [pc |-> pc, email |-> email, user |-> user, status |-> status, id |-> id,
     access |-> tokens[1], refresh |-> tokens[2]]

\* google_login up to its lookup: the identity provider vouched for email and
\* user_service.get_user_by_email has run on the request's own session
google_login_lookup(email) ==
    /\ Len(calls) < NumCalls
    /\ calls' = Append(calls,
                       Call("looked", email,
                            IF ByEmail(email) = {} THEN None
                            ELSE CHOOSE i \in ByEmail(email) : TRUE,
                            0, None, NoTokens))
    /\ UNCHANGED <<users, now, minted, cookie, resp, links, registry, notifications>>

\* google_login from "if user:" on, for request c: mint for the row found, or
\* insert a row through GoogleOauthServices.create and mint for it; a failed
\* insert is answered 500
google_login_answer(c) ==
    LET call == calls[c]
        r == IF call.user # None
             THEN [ok |-> TRUE, id |-> call.user, table |-> users,
                   exc |-> HTTPException(200, "Login successful")]
             ELSE create_new_user(users, call.email)
        tokens == IF r.ok
                  THEN <<create_access_token(r.id, now), create_refresh_token(r.id, now)>>
                  ELSE NoTokens
    IN  /\ call.pc = "looked"
        /\ r.ok => (Len(r.table) <= MaxUsers /\ CanMint(tokens, r.id))
        /\ users' = r.table
        /\ minted' = IF r.ok THEN Log(tokens, now, r.id) ELSE minted
        /\ cookie' = IF r.ok THEN tokens[2] ELSE cookie
        /\ calls' = [calls EXCEPT ![c] = Call("done", call.email, call.user,
                                              r.exc.status, r.id, tokens)]
        /\ resp' = IF r.ok
                   THEN Response("google", NoToken, call.email, 200, r.exc.detail,
                                 r.id, tokens, r.table[r.id].last_login)
                   ELSE Failure("google", NoToken, call.email, r.exc)
        /\ UNCHANGED <<now, links, registry, notifications>>

UpsertNext ==
    \/ StoreTick
    \/ \E e \in Emails : google_login_lookup(e)
    \/ \E c \in DOMAIN calls : google_login_answer(c)

UpsertSpec == Init /\ [][UpsertNext]_vars

\* ---------------------------------------------------------------- link tokens
\* (api/v1/services/request_pwd.py, api/v1/routes/request_password.py,
\*  api/v1/routes/auth.py)
LinkAge == 1        \* expiration of verify_reset_token, in seconds here
MaxLinks == 1       \* link tokens kept in the issuance log
MaxUses == 2        \* redemptions counted per link token
LinkEmails == {"a@x.io"}    \* emails registered while link tokens are exercised

\* serializer.dumps(email, salt=SECRET_KEY): the email, the issue time in
\* whole seconds and a signature; nothing tells a reset link from a magic link
create_reset_token(email, t) == [email |-> email, ts |-> TimeGm(t), sig |-> "good"]

NoLink == [email |-> NoEmail, ts |-> 0, sig |-> "absent"]

\* verify_reset_token with no max_age given to serializer.loads
verify_reset_token_no_max_age(token, t) ==
    IF token.sig # "good" THEN NoEmail ELSE token.email

\* verify_reset_token refusing a token that has been redeemed before
verify_reset_token_once(token, t) ==
    IF token.sig # "good" THEN NoEmail
    ELSE IF TimeGm(t) - token.ts > LinkAge THEN NoEmail
    ELSE IF \E l \in links : l.tok = token /\ l.used > 0 THEN NoEmail
    ELSE token.email

\* verify_reset_token: serializer.loads(token, salt, max_age) raises
\* BadSignature, or SignatureExpired when now - ts > max_age (whole seconds);
\* both are answered None
verify_reset_token(token, t) ==
    IF token.sig # "good" THEN NoEmail
    ELSE IF TimeGm(t) - token.ts > LinkAge THEN NoEmail
    ELSE token.email

\* what a link request was sent and what it got back
LinkResponse(op, link, email, exc, id, tokens) ==
    [op |-> op, link |-> link, email |-> email, status |-> exc.status,
     detail |-> exc.detail, id |-> id, access |-> tokens[1], refresh |-> tokens[2]]

\* the issuance log after use-case by mailed token at the current time
Mailed(token, by) ==
    IF \E l \in links : l.tok = token /\ l.by = by THEN links
    ELSE links \cup {[tok |-> token, at |-> now, by |-> by, used |-> 0]}

\* the issuance log after token was redeemed once more
Redeemed(token) ==
    {[l EXCEPT !.used = IF l.tok = token THEN l.used + 1 ELSE l.used] : l \in links}

\* RequestPasswordService.create: 404 for an unknown email, otherwise a link
\* token for the email is mailed
RequestPasswordService_create(email) ==
    IF ByEmail(email) = {}
    THEN [ok |-> FALSE, token |-> NoLink, exc |-> HTTPException(404, "User not found")]
    ELSE [ok |-> TRUE, token |-> create_reset_token(email, now),
          exc |-> HTTPException(201, "Password reset link sent successfully")]

\* POST /auth/request-forget-password
request_forget_password(email) ==
    LET r == RequestPasswordService_create(email)
    IN  /\ r.ok => Cardinality(Mailed(r.token, "reset")) <= MaxLinks
        /\ links' = IF r.ok THEN Mailed(r.token, "reset") ELSE links
        /\ resp' = LinkResponse("request-forget-password", r.token, email, r.exc,
                                None, NoTokens)
        /\ UNCHANGED <<users, now, minted, cookie, calls, registry, notifications>>

\* POST /auth/magic-link
request_magic_link(email) ==
    LET r == RequestPasswordService_create(email)
    IN  /\ r.ok => Cardinality(Mailed(r.token, "magic")) <= MaxLinks
        /\ links' = IF r.ok THEN Mailed(r.token, "magic") ELSE links
        /\ resp' = LinkResponse("magic-link", r.token, email,
                                IF r.ok THEN HTTPException(200, "Magic link sent sucessfully.")
                                ELSE r.exc,
                                None, NoTokens)
        /\ UNCHANGED <<users, now, minted, cookie, calls, registry, notifications>>

\* RequestPasswordService.verify_magic_link
verify_magic_link(token) ==
    LET email == verify_reset_token(token, now) IN
    IF email = NoEmail THEN Raise(HTTPException(400, "Invalid or expired token"))
    ELSE IF ByEmail(email) = {} THEN Raise(HTTPException(404, "User not found"))
    ELSE [ok |-> TRUE, id |-> CHOOSE i \in ByEmail(email) : TRUE,
          exc |-> HTTPException(200, "Login successful")]

\* GET /auth/magic-link/verify: the bearer pair is minted for the account the
\* link names and handed to the client (response body and cookie)
RouteVerifyMagicLink(token) ==
    LET r == verify_magic_link(token)
        tokens == <<create_access_token(r.id, now), create_refresh_token(r.id, now)>>
    IN  /\ IF r.ok
           THEN /\ cookie' = tokens[2]
                /\ resp' = LinkResponse("magic-link/verify", token, token.email, r.exc,
                                        r.id, tokens)
           ELSE /\ resp' = LinkResponse("magic-link/verify", token, token.email, r.exc,
                                        None, NoTokens)
                /\ UNCHANGED cookie
        /\ UNCHANGED <<users, now, minted, calls, links, registry, notifications>>

\* RequestPasswordService.reset_password: verify the link, find the account,
\* compare new and confirm, store the hash of new, commit
reset_password(token, new_password, confirm_password, salt) ==
    LET email == verify_reset_token(token, now) IN
    IF email = NoEmail
    THEN [ok |-> FALSE, id |-> None, table |-> users,
          exc |-> HTTPException(400, "Invalid or expired token")]
    ELSE IF ByEmail(email) = {}
    THEN [ok |-> FALSE, id |-> None, table |-> users,
          exc |-> HTTPException(404, "User not found")]
    ELSE IF new_password # confirm_password
    THEN [ok |-> FALSE, id |-> None, table |-> users,
          exc |-> HTTPException(400, "Passwords do not match")]
    ELSE LET id == CHOOSE i \in ByEmail(email) : TRUE IN
         [ok |-> TRUE, id |-> id,
          table |-> [users EXCEPT ![id].password = hash_password(new_password, salt)],
          exc |-> HTTPException(200, "Password has been reset successfully")]

\* POST /auth/forget-password
forget_password(token, new_password, confirm_password, salt) ==
    LET r == reset_password(token, new_password, confirm_password, salt)
    IN  /\ r.ok => \A l \in links : l.tok = token => l.used < MaxUses
        /\ users' = r.table
        /\ links' = IF r.ok THEN Redeemed(token) ELSE links
        /\ resp' = LinkResponse("forget-password", token, token.email, r.exc, r.id,
                                NoTokens)
        /\ UNCHANGED <<now, minted, cookie, calls, registry, notifications>>

\* link tokens a client can present: those mailed, and one with a tampered
\* signature
Mailbox ==
    {l.tok : l \in links} \cup {[l.tok EXCEPT !.sig = "forged"] : l \in links}

LinkNext ==
    \/ Tick
    \/ \E e \in LinkEmails, p \in NewPasswords, s \in Salts : ServiceRegister(e, p, s)
    \/ \E e \in Emails : request_forget_password(e)
    \/ \E e \in Emails : request_magic_link(e)
    \/ \E t \in Mailbox : RouteVerifyMagicLink(t)
    \/ \E t \in Mailbox, p, q \in Passwords, s \in Salts : forget_password(t, p, q, s)

LinkSpec == Init /\ [][LinkNext]_vars

\* ------------------------------------------------------------ change password
\* (api/v1/services/user.py, api/v1/routes/user.py)
\* what a change-password request was sent and what it got back; id is the
\* caller's once the bearer token has been accepted
PasswordResponse(token, old, new, confirm, exc, id) ==
    [op |-> "change-password", token |-> token, old |-> old, new |-> new,
     confirm |-> confirm, status |-> exc.status, detail |-> exc.detail, id |-> id]

\* UserService.change_password on the caller's session. An account with no
\* password takes the first branch, which stores and commits the hash of new
\* and then, having no return, runs on into the checks of the second branch
\* against the hash just stored.
change_password(session, id, old_password, new_password, confirm_new_password, salt) ==
    LET set == [session EXCEPT ![id].password = hash_password(new_password, salt)]
        Fail(table, detail) ==
            [ok |-> FALSE, table |-> table, exc |-> HTTPException(400, detail)]
        Done(table) == [ok |-> TRUE, table |-> table,
                        exc |-> HTTPException(200, "Password changed successfully!!")]
    IN  IF session[id].password \in {NoHash, Verbatim("")}
        THEN IF old_password # ""
             THEN Fail(users, "You do not have an existing password. Please set up a new password instead.")
             ELSE IF new_password # confirm_new_password
             THEN Fail(users, "New password and confirmation do not match.")
             ELSE IF ~verify_password(old_password, set[id].password)
             THEN Fail(set, "Incorrect old password.")
             ELSE Done(set)
        ELSE IF ~verify_password(old_password, session[id].password)
             THEN Fail(users, "Incorrect old password.")
             ELSE IF new_password # confirm_new_password
             THEN Fail(users, "New password and confirmation do not match.")
             ELSE Done(set)

\* PUT /users/update/password
RouteChangePassword(token, old, new, confirm, salt) ==
    LET a == get_current_user(token)
        r == change_password(a.session, a.id, old, new, confirm, salt)
    IN  /\ IF ~a.ok
           THEN /\ resp' = PasswordResponse(token, old, new, confirm, a.exc, None)
                /\ UNCHANGED users
           ELSE /\ users' = r.table
                /\ resp' = PasswordResponse(token, old, new, confirm, r.exc, a.id)
        /\ UNCHANGED <<now, minted, cookie, calls, links, registry, notifications>>

OldPasswords == Passwords \cup {""}

PasswordNext ==
    \/ StoreTick
    \/ \E e \in Emails, p \in NewPasswords, s \in Salts : RouteRegister(e, p, s)
    \/ \E e \in Emails : google_login(e)
    \/ \E t \in Held, o \in OldPasswords, p, q \in Passwords, s \in Salts :
           RouteChangePassword(t, o, p, q, s)

PasswordSpec == Init /\ [][PasswordNext]_vars

\* ------------------------------------------------- active status on read
\* (api/v1/models/user.py update_active_status; the handlers that return an
\*  account's is_active)

\* for user_instance in db.query(User).all(): user_instance.update_active_status()
update_all_active_status(table) ==
    [i \in DOMAIN table |-> update_active_status(table, i)[i]]

\* ProfileService.fetch_by_user_id: the user row is read and its is_active
\* put into the body as it is
fetch_by_user_id(session, user_id) ==
    IF user_id \notin DOMAIN session
    THEN [ok |-> FALSE, rows |-> {}, exc |-> HTTPException(404, "User not found")]
    ELSE [ok |-> TRUE, rows |-> {Row(session, user_id)},
          exc |-> HTTPException(200, "User Profile retrieved Successfully!!!")]

\* GET /profile/me
get_current_user_profile(token) ==
    LET a == get_current_user(token)
        r == fetch_by_user_id(a.session, a.id)
    IN  /\ resp' = IF ~a.ok THEN Failure("profile-me", token, NoEmail, a.exc)
                   ELSE IF ~r.ok THEN Failure("profile-me", token, NoEmail, r.exc)
                   ELSE Shown(Response("profile-me", token, NoEmail, 200, r.exc.detail,
                                       a.id, NoTokens, a.session[a.id].last_login),
                              r.rows)
        /\ UNCHANGED <<users, now, minted, cookie, calls, links, registry, notifications>>

\* UserService.get_user_by_id: 404 for an unknown id, update_active_status on
\* the row, then to_dict(); nothing is committed
get_user_by_id(session, id) ==
    IF id \notin DOMAIN session
    THEN [ok |-> FALSE, rows |-> {}, exc |-> HTTPException(404, "User does not exist")]
    ELSE [ok |-> TRUE, rows |-> {Row(update_active_status(session, id), id)},
          exc |-> HTTPException(200, "User retrieved successfully")]

\* GET /users/{user_id}
RouteGetUserById(token, user_id) ==
    LET a == get_current_user(token)
        r == get_user_by_id(a.session, user_id)
    IN  /\ resp' = IF ~a.ok THEN Failure("user-by-id", token, NoEmail, a.exc)
                   ELSE IF ~r.ok THEN Failure("user-by-id", token, NoEmail, r.exc)
                   ELSE Shown(Response("user-by-id", token, NoEmail, 200, r.exc.detail,
                                       user_id, NoTokens, a.session[a.id].last_login),
                              r.rows)
        /\ UNCHANGED <<users, now, minted, cookie, calls, links, registry, notifications>>

\* UserService.fetch_all with no search and no filter: update_active_status on
\* every row, db.commit(), then the rows as UserData
fetch_all(session) ==
    LET c == commit(update_all_active_status(session))
    IN  [ok |-> TRUE, table |-> c.table,
         rows |-> {Row(c.table, i) : i \in DOMAIN c.table},
         exc |-> HTTPException(200, IF c.table = <<>> THEN "No User(s) for this query"
                                    ELSE "Users successfully retrieved")]

\* GET /users
get_users(token) ==
    LET a == get_current_super_admin(token)
        r == fetch_all(a.session)
    IN  /\ IF ~a.ok
           THEN /\ resp' = Failure("users", token, NoEmail, a.exc)
                /\ UNCHANGED users
           ELSE /\ users' = r.table
                /\ resp' = Shown(Response("users", token, NoEmail, 200, r.exc.detail,
                                          a.id, NoTokens, r.table[a.id].last_login),
                                 r.rows)
        /\ UNCHANGED <<now, minted, cookie, calls, links, registry, notifications>>

\* UserService.get_users_statistics on a fresh session: update_active_status
\* on every row, then the counts; nothing is committed
get_users_statistics(session) ==
    LET all == update_all_active_status(session)
    IN  [ok |-> TRUE, rows |-> {Row(all, i) : i \in DOMAIN all},
         active_users |-> Cardinality({i \in DOMAIN all : all[i].is_active}),
         exc |-> HTTPException(200, "statsUpdate")]

\* GET /users/statistics: the first event of the stream
get_user_statistics ==
    LET r == get_users_statistics(users)
    IN  /\ resp' = Shown(Response("statistics", NoToken, NoEmail, 200, r.exc.detail,
                                  r.active_users, NoTokens, None),
                         r.rows)
        /\ UNCHANGED <<users, now, minted, cookie, calls, links, registry, notifications>>

ActivityNext ==
    \/ Tick
    \/ \E e \in Emails, p \in NewPasswords, s \in Salts : RouteRegister(e, p, s)
    \/ \E e \in Emails, p \in NewPasswords, s \in Salts : register_as_super_admin(e, p, s)
    \/ \E t \in Held : get_current_user_details(t)
    \/ \E t \in Held : get_current_user_profile(t)
    \/ \E t \in Held, i \in 1..MaxUsers : RouteGetUserById(t, i)
    \/ \E t \in Held : get_users(t)
    \/ get_user_statistics

ActivitySpec == Init /\ [][ActivityNext]_vars

\* ------------------------------------------------------------ tombstones
\* (api/v1/services/user.py delete, restore_deleted; api/v1/routes/user.py)

\* the Depends(oauth2_scheme) object a directly called service method gets as
\* the default of access_token: not a string, so jwt.decode raises on it as
\* on an absent token
Depends_oauth2_scheme == NoToken

\* UserService.delete on the caller's session: the account is the one of
\* access_token when id is None, the row with that id otherwise (404 when
\* there is none); is_deleted = True, db.commit()
delete(session, id, access_token) ==
    LET cur == get_current_user(access_token)
        user == IF id = None
                THEN IF cur.ok THEN Return(cur.id) ELSE Raise(cur.exc)
                ELSE IF id \notin DOMAIN session
                     THEN Raise(HTTPException(404, "User does not exist"))
                     ELSE Return(id)
    IN  IF ~user.ok THEN [ok |-> FALSE, table |-> users, exc |-> user.exc]
        ELSE [ok |-> TRUE,
              table |-> commit([(IF id = None THEN update_last_login(session, user.id)
                                 ELSE session) EXCEPT ![user.id].is_deleted = TRUE]).table,
              exc |-> HTTPException(204, "")]

\* UserService.restore_deleted: 404 for an unknown id, is_deleted = False,
\* db.commit()
restore_deleted(session, id) ==
    IF id \notin DOMAIN session
    THEN [ok |-> FALSE, table |-> users,
          exc |-> HTTPException(404, "User does not exist")]
    ELSE [ok |-> TRUE,
          table |-> commit([session EXCEPT ![id].is_deleted = FALSE]).table,
          exc |-> HTTPException(200, "User restored successfully!")]

\* DELETE /users/{user_id}
delete_user(token, user_id) ==
    LET a == get_current_super_admin(token)
        r == delete(a.session, user_id, Depends_oauth2_scheme)
    IN  /\ IF ~a.ok
           THEN /\ resp' = Failure("delete-user", token, NoEmail, a.exc)
                /\ UNCHANGED users
           ELSE /\ users' = r.table
                /\ resp' = IF r.ok
                           THEN Response("delete-user", token, NoEmail, 204, r.exc.detail,
                                         user_id, NoTokens, None)
                           ELSE Failure("delete-user", token, NoEmail, r.exc)
        /\ UNCHANGED <<now, minted, cookie, calls, links, registry, notifications>>

\* GET /users/delete: UserService.delete is called with the session only
delete_account(token) ==
    LET a == get_current_user(token)
        r == delete(a.session, None, Depends_oauth2_scheme)
    IN  /\ IF ~a.ok
           THEN /\ resp' = Failure("delete-account", token, NoEmail, a.exc)
                /\ UNCHANGED users
           ELSE /\ users' = r.table
                /\ resp' = IF r.ok
                           THEN Response("delete-account", token, NoEmail, 200,
                                         "User deleted successfully", a.id, NoTokens, None)
                           ELSE Failure("delete-account", token, NoEmail, r.exc)
        /\ UNCHANGED <<now, minted, cookie, calls, links, registry, notifications>>

\* PUT /users/{user_id}/restore
restore_deleted_user(token, user_id) ==
    LET a == get_current_super_admin(token)
        r == restore_deleted(a.session, user_id)
    IN  /\ IF ~a.ok
           THEN /\ resp' = Failure("restore-user", token, NoEmail, a.exc)
                /\ UNCHANGED users
           ELSE /\ users' = r.table
                /\ resp' = IF r.ok
                           THEN Response("restore-user", token, NoEmail, 200, r.exc.detail,
                                         user_id, NoTokens, None)
                           ELSE Failure("restore-user", token, NoEmail, r.exc)
        /\ UNCHANGED <<now, minted, cookie, calls, links, registry, notifications>>

TombNext ==
    \/ StoreTick
    \/ \E e \in Emails, p \in NewPasswords, s \in Salts : RouteRegister(e, p, s)
    \/ \E e \in Emails, p \in NewPasswords, s \in Salts : register_as_super_admin(e, p, s)
    \/ \E t \in Held, i \in 1..MaxUsers : delete_user(t, i)
    \/ \E t \in Held : delete_account(t)
    \/ \E t \in Held, i \in 1..MaxUsers : restore_deleted_user(t, i)

TombSpec == Init /\ [][TombNext]_vars

\* ------------------------------------------------ live connection registry
\* (api/v1/routes/user.py: connections, state_map, the ORM change listeners and
\*  the generators of the two event streams)
\*
\* The generators run on the event loop, one at a time from one await to the
\* next. The listeners run inside the flush of whichever request changed a
\* row, for a def handler on a worker thread, and nothing in the module locks
\* state_map: a listener and the event loop interleave between the
\* iterations of a loop and at calls.
MaxStreams == 2     \* streams opened
MaxChanges == 2     \* listener invocations

\* state_map[key] = [update_state, active_state]
Entry(update_state, active_state) ==
    [update_state |-> update_state, active_state |-> active_state]

\* del state_map[key]
Without(map, key) == [k \in DOMAIN map \ {key} |-> map[k]]

\* state_map[key] = entry
With(map, key, entry) ==
    [k \in DOMAIN map \cup {key} |-> IF k = key THEN entry ELSE map[k]]

\* iter(state_map.items()): the size of the dict when the loop starts and the
\* keys yielded so far
items(map) == [used |-> Cardinality(DOMAIN map), seen |-> {}]

\* next() raises RuntimeError once the dict has changed size
Changed(it) == Cardinality(DOMAIN state_map) # it.used

\* the keys next() has still to yield, and the one it yields (insertion order)
Rest(it) == DOMAIN state_map \ it.seen
NextKey(it) == CHOOSE k \in Rest(it) : \A j \in Rest(it) : k <= j

\* a generator holds the event loop from the await it resumed at to the next
Busy(g) == generators[g].pc \in {"reset", "insert", "stats", "clear"}
Idle == \A g \in DOMAIN generators : ~Busy(g)

\* a listener is inside orm_event_listener
Running(l) == listeners[l].pc \in {"scan", "delete", "mark"}

\* event_generator / activity_event_generator, lines 141-146: take the next
\* connection index, then enter reset_connection_active_status
event_generator ==
    /\ connections < MaxStreams
    /\ Idle
    /\ connections' = connections + 1
    /\ generators' = Append(generators,
            [pc |-> IF state_map = <<>> THEN "insert" ELSE "reset",
             key |-> connections, it |-> items(state_map),
             data |-> 0, pushed |-> 0, last_tick |-> 0])
    /\ UNCHANGED <<state_map, listeners>>
    /\ UNCHANGED <<users, now, minted, cookie, resp, calls, links, notifications>>

\* reset_connection_active_status: one iteration of its loop
reset_connection_active_status(g) ==
    LET gen == generators[g] IN
    /\ gen.pc = "reset"
    /\ IF Changed(gen.it)
       THEN /\ generators' = [generators EXCEPT ![g].pc = "raised"]
            /\ UNCHANGED state_map
       ELSE IF Rest(gen.it) = {}
       THEN /\ generators' = [generators EXCEPT ![g].pc = "insert"]
            /\ UNCHANGED state_map
       ELSE /\ state_map' = [state_map EXCEPT ![NextKey(gen.it)].active_state = 0]
            /\ generators' = [generators EXCEPT
                                 ![g].it.seen = gen.it.seen \cup {NextKey(gen.it)}]
    /\ UNCHANGED <<connections, listeners>>
    /\ UNCHANGED <<users, now, minted, cookie, resp, calls, links, notifications>>

\* lines 149-159: state_map[map_key] = [1, 1], then the first pass of the loop
\* up to the call of get_users_statistics
event_generator_insert(g) ==
    LET gen == generators[g] IN
    /\ gen.pc = "insert"
    /\ state_map' = With(state_map, gen.key, Entry(1, 1))
    /\ generators' = [generators EXCEPT ![g].pc = "stats",
                                        ![g].last_tick = Len(listeners)]
    /\ UNCHANGED <<connections, listeners>>
    /\ UNCHANGED <<users, now, minted, cookie, resp, calls, links, notifications>>

\* a tick that puts its entry back when it finds it gone
event_generator_tick_setdefault(g) ==
    LET gen == generators[g]
        map == IF gen.key \in DOMAIN state_map THEN state_map
               ELSE With(state_map, gen.key, Entry(1, 1))
    IN
    /\ gen.pc = "sleep"
    /\ Idle
    /\ state_map' = [map EXCEPT ![gen.key].active_state = 1]
    /\ generators' = [generators EXCEPT
            ![g].pc = IF map[gen.key].update_state = 1 THEN "stats" ELSE "sleep",
            ![g].last_tick = Len(listeners)]
    /\ UNCHANGED <<connections, listeners>>
    /\ UNCHANGED <<users, now, minted, cookie, resp, calls, links, notifications>>

\* lines 151-159, after asyncio.sleep(1): mark the entry active, or break on
\* KeyError; go on to the statistics when update_state is 1
event_generator_tick(g) ==
    LET gen == generators[g] IN
    /\ gen.pc = "sleep"
    /\ Idle
    /\ IF gen.key \notin DOMAIN state_map
       THEN /\ generators' = [generators EXCEPT ![g].pc = "done"]
            /\ UNCHANGED state_map
       ELSE /\ state_map' = [state_map EXCEPT ![gen.key].active_state = 1]
            /\ generators' = [generators EXCEPT
                    ![g].pc = IF state_map[gen.key].update_state = 1
                              THEN "stats" ELSE "sleep",
                    ![g].last_tick = Len(listeners)]
    /\ UNCHANGED <<connections, listeners>>
    /\ UNCHANGED <<users, now, minted, cookie, resp, calls, links, notifications>>

\* line 161: data = json.dumps(user_service.get_users_statistics(db)); the
\* data reflect the changes announced so far
event_generator_stats(g) ==
    /\ generators[g].pc = "stats"
    /\ generators' = [generators EXCEPT ![g].pc = "clear",
                                        ![g].data = Len(listeners)]
    /\ UNCHANGED <<connections, state_map, listeners>>
    /\ UNCHANGED <<users, now, minted, cookie, resp, calls, links, notifications>>

\* lines 164-167: state_map[map_key][0] = 0 (KeyError is not caught here),
\* yield the event, sleep
event_generator_clear(g) ==
    LET gen == generators[g] IN
    /\ gen.pc = "clear"
    /\ IF gen.key \notin DOMAIN state_map
       THEN /\ generators' = [generators EXCEPT ![g].pc = "raised"]
            /\ UNCHANGED state_map
       ELSE /\ state_map' = [state_map EXCEPT ![gen.key].update_state = 0]
            /\ generators' = [generators EXCEPT ![g].pc = "sleep",
                                                ![g].pushed = gen.data]
    /\ UNCHANGED <<connections, listeners>>
    /\ UNCHANGED <<users, now, minted, cookie, resp, calls, links, notifications>>

\* the client goes away: the generator is cancelled where it sleeps and its
\* entry stays in state_map
disconnect(g) ==
    /\ generators[g].pc = "sleep"
    /\ generators' = [generators EXCEPT ![g].pc = "gone"]
    /\ UNCHANGED <<connections, state_map, listeners>>
    /\ UNCHANGED <<users, now, minted, cookie, resp, calls, links, notifications>>

\* orm_event_listener / orm_event_listener_for_project is called by a flush
\* and enters remove_inactive_connections
orm_event_listener ==
    /\ Len(listeners) < MaxChanges
    /\ listeners' = Append(listeners,
            [pc |-> IF state_map = <<>> THEN "delete" ELSE "scan",
             it |-> items(state_map), to_remove |-> {},
             start |-> state_map, marked |-> {},
             after |-> {l \in DOMAIN listeners : ~Running(l)}])
    /\ UNCHANGED <<connections, state_map, generators>>
    /\ UNCHANGED <<users, now, minted, cookie, resp, calls, links, notifications>>

\* remove_inactive_connections, lines 116-118: one iteration of the loop that
\* collects the keys whose active_state is 0
remove_inactive_connections_scan(l) ==
    LET lis == listeners[l] IN
    /\ lis.pc = "scan"
    /\ listeners' =
          IF Changed(lis.it) THEN [listeners EXCEPT ![l].pc = "raised"]
          ELSE IF Rest(lis.it) = {} THEN [listeners EXCEPT ![l].pc = "delete"]
          ELSE [listeners EXCEPT
                   ![l].it.seen = lis.it.seen \cup {NextKey(lis.it)},
                   ![l].to_remove =
                       IF state_map[NextKey(lis.it)].active_state = 0
                       THEN lis.to_remove \cup {NextKey(lis.it)}
                       ELSE lis.to_remove]
    /\ UNCHANGED <<connections, state_map, generators>>
    /\ UNCHANGED <<users, now, minted, cookie, resp, calls, links, notifications>>

\* remove_inactive_connections, lines 119-120: one del; after the last one,
\* back in orm_event_listener at its `if state_map:`
remove_inactive_connections_delete(l) ==
    LET lis == listeners[l]
        c == CHOOSE k \in lis.to_remove : \A j \in lis.to_remove : k <= j
    IN
    /\ lis.pc = "delete"
    /\ IF lis.to_remove = {}
       THEN /\ listeners' = [listeners EXCEPT
                    ![l].pc = IF state_map = <<>> THEN "done" ELSE "mark",
                    ![l].it = items(state_map)]
            /\ UNCHANGED state_map
       ELSE IF c \notin DOMAIN state_map
       THEN /\ listeners' = [listeners EXCEPT ![l].pc = "raised"]
            /\ UNCHANGED state_map
       ELSE /\ state_map' = Without(state_map, c)
            /\ listeners' = [listeners EXCEPT ![l].to_remove = lis.to_remove \ {c}]
    /\ UNCHANGED <<connections, generators>>
    /\ UNCHANGED <<users, now, minted, cookie, resp, calls, links, notifications>>

\* orm_event_listener, lines 135-137: one iteration of the loop that sets
\* every entry to [1, 1]
orm_event_listener_mark(l) ==
    LET lis == listeners[l] IN
    /\ lis.pc = "mark"
    /\ IF Changed(lis.it)
       THEN /\ listeners' = [listeners EXCEPT ![l].pc = "raised"]
            /\ UNCHANGED state_map
       ELSE IF Rest(lis.it) = {}
       THEN /\ listeners' = [listeners EXCEPT ![l].pc = "done"]
            /\ UNCHANGED state_map
       ELSE /\ state_map' = [state_map EXCEPT ![NextKey(lis.it)] = Entry(1, 1)]
            /\ listeners' = [listeners EXCEPT
                    ![l].it.seen = lis.it.seen \cup {NextKey(lis.it)},
                    ![l].marked = lis.marked \cup {NextKey(lis.it)}]
    /\ UNCHANGED <<connections, generators>>
    /\ UNCHANGED <<users, now, minted, cookie, resp, calls, links, notifications>>

RegistryNext ==
    \/ event_generator
    \/ \E g \in DOMAIN generators : reset_connection_active_status(g)
    \/ \E g \in DOMAIN generators : event_generator_insert(g)
    \/ \E g \in DOMAIN generators : event_generator_tick(g)
    \/ \E g \in DOMAIN generators : event_generator_stats(g)
    \/ \E g \in DOMAIN generators : event_generator_clear(g)
    \/ \E g \in DOMAIN generators : disconnect(g)
    \/ orm_event_listener
    \/ \E l \in DOMAIN listeners : remove_inactive_connections_scan(l)
    \/ \E l \in DOMAIN listeners : remove_inactive_connections_delete(l)
    \/ \E l \in DOMAIN listeners : orm_event_listener_mark(l)

RegistrySpec == Init /\ [][RegistryNext]_vars

\* ----------------------------------------- tokens of the external-identity
\* service (api/v1/services/google_oauth.py)

\* GoogleOauthServices.generate_tokens(user): both tokens are built by
\* user_service.create_access_token
generate_tokens(user_id, t) ==
    <<create_access_token(user_id, t), create_access_token(user_id, t)>>

\* a caller obtains generate_tokens(user) for a stored account and keeps the
\* refresh_token as its cookie
GenerateTokens(id) ==
    LET tokens == generate_tokens(id, now)
        log == minted \cup {[tok |-> tokens[1], at |-> now, by |-> "access", sub |-> id]}
    IN  /\ id \in DOMAIN users
        /\ Cardinality(log) <= MaxMinted
        /\ minted' = log
        /\ cookie' = tokens[2]
        /\ resp' = Response("generate-tokens", NoToken, users[id].email, 200, "",
                            id, tokens, users[id].last_login)
        /\ UNCHANGED <<users, now, calls, links, registry, notifications>>

TokensNext ==
    \/ Tick
    \/ \E e \in Emails, p \in NewPasswords, s \in Salts : RouteRegister(e, p, s)
    \/ \E i \in 1..MaxUsers : GenerateTokens(i)
    \/ RouteRefresh(cookie)
    \/ \E t \in Held : get_current_user_details(t)

TokensSpec == Init /\ [][TokensNext]_vars

\* ---------------------------------------------------------- notifications
\* (api/v1/services/notification.py, api/v1/routes/notification.py)
MaxNotifications == 2   \* rows the notifications table can hold

\* id of the row a freshly added Notification gets
NextNotificationId ==
    IF notifications = <<>> THEN 1
    ELSE 1 + CHOOSE i \in DOMAIN notifications : \A j \in DOMAIN notifications : j <= i

\* NotificationService.send_notification for a stored user: add, commit
send_notification(user) ==
    /\ user \in DOMAIN users
    /\ Cardinality(DOMAIN notifications) < MaxNotifications
    /\ notifications' = With(notifications, NextNotificationId,
                             [receiver_id |-> user, status |-> "unread"])
    /\ UNCHANGED <<users, now, minted, cookie, resp, calls, links, registry>>

\* user.notifications: the rows whose receiver is the user
user_notifications(session, user) ==
    {i \in DOMAIN session : session[i].receiver_id = user}

\* NotificationService.fetch: 404 for an unknown id, 403 for a notification
\* that is not among the user's
NotificationService_fetch(session, user, notification_id) ==
    IF notification_id \notin DOMAIN session
    THEN Raise(HTTPException(404, "Notification does not exist"))
    ELSE IF notification_id \notin user_notifications(session, user)
    THEN Raise(HTTPException(403, "You do not have access to this notification"))
    ELSE Return(notification_id)

\* NotificationService.delete: the same two checks, then db.delete(notification)
\* on the request's session; the method does not commit
NotificationService_delete(session, user, notification_id) ==
    LET n == NotificationService_fetch(session, user, notification_id)
    IN  [ok |-> n.ok, exc |-> n.exc,
         session |-> IF n.ok THEN Without(session, notification_id) ELSE session]

\* DELETE /notifications/{id}: the handler returns after the service call and
\* get_db closes the session, which discards what was not committed
delete_notification(token, id) ==
    LET a == get_current_user(token)
        r == NotificationService_delete(notifications, a.id, id)
    IN  /\ resp' = IF ~a.ok THEN Failure("delete-notification", token, NoEmail, a.exc)
                   ELSE IF ~r.ok THEN Failure("delete-notification", token, NoEmail, r.exc)
                   ELSE Response("delete-notification", token, NoEmail, 204, "",
                                 id, NoTokens, None)
        /\ UNCHANGED notifications
        /\ UNCHANGED <<users, now, minted, cookie, calls, links, registry>>

\* GET /notifications/{id}
get_single_notification(token, id) ==
    LET a == get_current_user(token)
        r == NotificationService_fetch(notifications, a.id, id)
    IN  /\ resp' = IF ~a.ok THEN Failure("notification", token, NoEmail, a.exc)
                   ELSE IF ~r.ok THEN Failure("notification", token, NoEmail, r.exc)
                   ELSE Response("notification", token, NoEmail, 200,
                                 "Notification fetched successfully", id, NoTokens, None)
        /\ UNCHANGED <<users, now, minted, cookie, calls, links, registry, notifications>>

\* GET /notifications
get_notifications(token) ==
    LET a == get_current_user(token)
    IN  /\ resp' = IF ~a.ok THEN Failure("notifications", token, NoEmail, a.exc)
                   ELSE Shown(Response("notifications", token, NoEmail, 200,
                                       "Notifications retrieved successfully",
                                       a.id, NoTokens, None),
                              user_notifications(notifications, a.id))
        /\ UNCHANGED <<users, now, minted, cookie, calls, links, registry, notifications>>

NotificationNext ==
    \/ StoreTick
    \/ \E e \in Emails, p \in NewPasswords, s \in Salts : RouteRegister(e, p, s)
    \/ \E u \in 1..MaxUsers : send_notification(u)
    \/ \E t \in Held, i \in 1..MaxNotifications : delete_notification(t, i)
    \/ \E t \in Held, i \in 1..MaxNotifications : get_single_notification(t, i)
    \/ \E t \in Held : get_notifications(t)

NotificationSpec == Init /\ [][NotificationNext]_vars

\* ------------------------------------------ authentication of tombstoned
\* accounts (api/v1/services/user.py authenticate_user, get_current_user,
\* refresh_access_token against delete)
DeletedAuthNext ==
    \/ Tick
    \/ \E e \in Emails, p \in NewPasswords, s \in Salts : RouteRegister(e, p, s)
    \/ \E e \in Emails, p \in NewPasswords, s \in Salts : register_as_super_admin(e, p, s)
    \/ \E t \in Held, i \in 1..MaxUsers : delete_user(t, i)
    \/ \E e \in Emails, p \in Passwords : login(e, p)
    \/ \E t \in Held : get_current_user_details(t)
    \/ RouteRefresh(cookie)

DeletedAuthSpec == Init /\ [][DeletedAuthNext]_vars

----
TypeOK ==
    /\ Len(users) <= MaxUsers
    /\ now \in 0..MaxTime
    /\ Cardinality(minted) <= MaxMinted

\* --------------------------------------------------------------- claims
\* the instant (in ticks) a logged token expires: issue time + lifetime
ExpiresAt(m) ==
    m.at + (IF m.by = "access" THEN AccessLife ELSE RefreshLife) * Res

\* verification of a logged token by the verifier of its own purpose, at time t
VerifyOwn(m, t) ==
    IF m.by = "access"
    THEN verify_access_token(m.tok, CredentialsException, t)
    ELSE verify_refresh_token(m.tok, RefreshExpired, t)

\* the step just taken was a request of kind op (requests leave the clock alone)
Did(op) == now' = now /\ resp'.op = op

\* C1: a token minted by create_refresh_token is rejected by
\* verify_access_token and a token minted by create_access_token is rejected
\* by verify_refresh_token, at any time and for every subject.
C1_CrossPurposeRejected ==
    \A m \in minted :
        /\ m.by = "refresh" =>
               ~verify_access_token(m.tok, CredentialsException, now).ok
        /\ m.by = "access" =>
               ~verify_refresh_token(m.tok, RefreshExpired, now).ok

\* an unexpired refresh token was presented as an access token and refused
C1_Witness ==
    /\ resp.op = "me"
    /\ resp.status = 400
    /\ \E m \in minted :
           m.by = "refresh" /\ m.tok = resp.token /\ now <= ExpiresAt(m)

\* C2: verifying an unexpired token returned by create_access_token(s) with
\* verify_access_token returns exactly s.
C2_AccessRoundTrip ==
    \A m \in minted :
        (m.by = "access" /\ now <= ExpiresAt(m)) =>
            verify_access_token(m.tok, CredentialsException, now) = Return(m.sub)

\* an access token presented in the last instant of its life was accepted
C2_Witness ==
    /\ resp.op = "me"
    /\ resp.status = 200
    /\ \E m \in minted :
           m.by = "access" /\ m.tok = resp.token /\ m.sub = resp.id
           /\ now = ExpiresAt(m)

\* a logged token is rejected by its own verifier at time t
Rejected(m, t) == ~VerifyOwn(m, t).ok

\* C3 (boundary): a token issued with lifetime T verifies at every time up to
\* expires_at - 1s and is rejected at every time from expires_at + 1s.
C3_Boundary ==
    \A m \in minted :
        /\ now <= ExpiresAt(m) - Res => VerifyOwn(m, now) = Return(m.sub)
        /\ now >= ExpiresAt(m) + Res => Rejected(m, now)

\* C3: the boundary above, and a token once rejected for expiry is never
\* accepted again.
C3_Expiry ==
    /\ []C3_Boundary
    /\ [][\A m \in minted : Rejected(m, now) => Rejected(m, now')]_vars

\* a refresh token was presented a second after its expiry and refused
C3_Witness ==
    /\ resp.op = "refresh"
    /\ resp.status = 401
    /\ \E m \in minted :
           m.by = "refresh" /\ m.tok = resp.token /\ now >= ExpiresAt(m) + Res

\* the log entries of the refresh tokens that are valid at the current time
ValidRefresh == {m \in minted : m.by = "refresh" /\ now <= ExpiresAt(m)}

\* C4: refresh_access_token(old) with a valid, unexpired refresh token for
\* subject s returns (access, refresh) where access verifies as an access
\* token for s and refresh as a refresh token for s; with a token that fails
\* refresh verification it returns no tokens.
C4_RefreshPair ==
    [][Did("refresh") =>
        /\ \A m \in ValidRefresh : m.tok = resp'.token =>
               /\ resp'.status = 200
               /\ verify_access_token(resp'.access, CredentialsException, now')
                      = Return(m.sub)
               /\ verify_refresh_token(resp'.refresh, RefreshExpired, now')
                      = Return(m.sub)
        /\ ~verify_refresh_token(resp'.token, RefreshExpired, now).ok =>
               /\ resp'.status # 200
               /\ resp'.access = NoToken
               /\ resp'.refresh = NoToken
    ]_vars

\* a refresh with a valid refresh token answered with a pair
C4_Witness ==
    /\ resp.op = "refresh"
    /\ resp.status = 200
    /\ resp.access # NoToken
    /\ \E m \in minted : m.by = "refresh" /\ m.tok = resp.token /\ m.sub = resp.id

\* C5: the refresh token returned by refresh_access_token(old) differs
\* bit-for-bit from old, at whatever time the refresh is performed.
C5_RotationDiffers ==
    (resp.op = "refresh" /\ resp.status = 200) => resp.refresh # resp.token

\* C6: bearer tokens are stateless: whatever requests (refresh, logout, login,
\* register) were served since a token was issued, presenting it before its
\* expiry succeeds for its subject exactly as when it was new.
C6_Stateless ==
    [][/\ Did("refresh") =>
              \A m \in ValidRefresh : m.tok = resp'.token =>
                  resp'.status = 200 /\ resp'.id = m.sub
       /\ (Did("me") \/ Did("logout")) =>
              \A m \in minted :
                  (m.by = "access" /\ now <= ExpiresAt(m) /\ m.tok = resp'.token) =>
                      resp'.status = 200 /\ resp'.id = m.sub
    ]_vars

\* an access token issued before a rotation was accepted after the rotation
\* had replaced the client's cookie
C6_Witness ==
    /\ resp.op = "me"
    /\ resp.status = 200
    /\ \E old \in minted, new \in minted :
           /\ old.by = "access" /\ old.tok = resp.token
           /\ new.by = "refresh" /\ new.sub = old.sub /\ new.at > old.at
           /\ cookie = new.tok

\* C7: at get_current_user every token failure produces one and the same
\* unauthorized signal (same status and detail).
C7_OneUnauthorizedSignal ==
    (resp.op \in {"me", "logout"} /\ resp.status # 200) =>
        (resp.status = CredentialsException.status
         /\ resp.detail = CredentialsException.detail)

\* C8: authenticate_user with an existing email and a wrong password, and
\* with an email that has no account, fail with the identical error signal,
\* and neither changes the account store.
C8_UndifferentiatedLoginFailure ==
    [][(Did("login") /\ resp'.status # 200) =>
        /\ resp'.status = 400
        /\ resp'.detail = "Invalid user credentials"
        /\ users' = users
    ]_vars

\* a login with the email of an existing account and a wrong password failed
C8_Witness ==
    /\ resp.op = "login"
    /\ resp.status = 400
    /\ ByEmail(resp.email) # {}

\* a login with an email that has no account failed
C8_WitnessNoAccount ==
    /\ resp.op = "login"
    /\ resp.status = 400
    /\ ByEmail(resp.email) = {}
    /\ users # <<>>

\* C9: after a successful login the last_login held in the account store for
\* that account is the time of that login.
C9_LastLoginStored ==
    (resp.op = "login" /\ resp.status = 200) =>
        users[resp.id].last_login = resp.last_login

\* C10: register fails with the duplicate-email error and leaves the store
\* unchanged when an account with that email exists; otherwise it adds
\* exactly one account with that email and a hashed password and returns it.
C10_Register ==
    [][(Did("register") \/ Did("auth.register")) =>
        IF ByEmail(resp'.email) # {}
        THEN /\ resp'.status = 400
             /\ resp'.detail \in {"User with this email or username already exists",
                                  "EMAIL_ALREADY_EXISTS"}
             /\ users' = users
        ELSE /\ resp'.status = 201
             /\ Len(users') = Len(users) + 1
             /\ SubSeq(users', 1, Len(users)) = users
             /\ resp'.id = Len(users')
             /\ users'[resp'.id].email = resp'.email
             /\ \E p \in NewPasswords :
                    verify_password(p, users'[resp'.id].password)
    ]_vars

\* a registration was refused for a duplicate email
C10_Witness ==
    /\ resp.op \in {"register", "auth.register"}
    /\ resp.status = 400
    /\ Cardinality(ByEmail(resp.email)) = 1

\* ------------------------------------------------- claims on the account store
\* C11: in every reachable state, under any interleaving of register, admin
\* user creation, external-identity login, user update and profile update, no
\* two accounts in the store have the same email.
C11_UniqueEmail ==
    \A i, j \in DOMAIN users : i # j => users[i].email # users[j].email

\* a profile update asked for the email of another account and was refused
C11_Witness ==
    /\ resp.op = "update-profile"
    /\ resp.status = 409
    /\ \E i, j \in DOMAIN users : i # j /\ users[j].email = resp.email

\* C12: for any number of google_login calls with the same email, in any
\* interleaving, every call succeeds and returns tokens for the same account,
\* and exactly one account with that email and no password hash exists
\* afterwards.
C12_IdempotentUpsert ==
    \A c \in DOMAIN calls :
        calls[c].pc = "done" =>
            /\ calls[c].status = 200
            /\ ByEmail(calls[c].email) = {calls[c].id}
            /\ users[calls[c].id].password = NoHash
            /\ calls[c].access.user_id = calls[c].id
            /\ calls[c].refresh.user_id = calls[c].id

\* the stored value is what the hasher returns for some password
IsHash(stored) ==
    \E p \in Passwords \cup NewPasswords \cup {""}, s \in Salts :
        stored = hash_password(p, s)

Age(l) == TimeGm(now) - l.tok.ts

C15_UseCaseBound ==
    /\ (resp.op = "magic-link/verify" /\ resp.status = 200) =>
           \E l \in links : l.tok = resp.link /\ l.by = "magic"
    /\ (resp.op = "forget-password" /\ resp.status = 200) =>
           \E l \in links : l.tok = resp.link /\ l.by = "reset"

\* C16: at every time within max-age of its issuance verify_reset_token
\* accepts a link token, however often it has been redeemed and whatever
\* password changes were made since it was issued.
C16_AgeAndSignatureOnly ==
    \A l \in links :
        Age(l) <= LinkAge => verify_reset_token(l.tok, now) = l.tok.email

\* a link redeemed before was redeemed again, changing the password again
C16_Witness ==
    /\ resp.op = "forget-password"
    /\ resp.status = 200
    /\ \E l \in links : l.tok = resp.link /\ l.used >= 2 /\ Age(l) <= LinkAge

\* ------------------------------------------------- claims on change_password
\* C17: for an account with no stored password hash, change_password with an
\* empty old password and new = confirm completes successfully and stores the
\* hash of new; with a non-empty old password it fails and stores nothing.
C17_FirstPassword ==
    [][(Did("change-password") /\ resp'.id # None
            /\ users[resp'.id].password = NoHash) =>
           /\ (resp'.old = "" /\ resp'.new = resp'.confirm) =>
                  /\ resp'.status = 200
                  /\ \E s \in Salts :
                         users'[resp'.id].password = hash_password(resp'.new, s)
           /\ resp'.old # "" =>
                  /\ resp'.status # 200
                  /\ users'[resp'.id].password = NoHash
    ]_vars

\* C18: change_password fails with the password-mismatch error whenever
\* new # confirm, whatever the old password supplied, and fails with the
\* incorrect-old-password error only when new = confirm and old does not
\* verify.
C18_ErrorChoice ==
    [][(Did("change-password") /\ resp'.id # None) =>
           /\ resp'.new # resp'.confirm =>
                  resp'.detail = "New password and confirmation do not match."
           /\ resp'.detail = "Incorrect old password." =>
                  /\ resp'.new = resp'.confirm
                  /\ ~verify_password(resp'.old, users[resp'.id].password)
    ]_vars

\* --------------------------------------------- claims on the active status
\* the requests whose body carries an account's is_active
Reads == {"me", "profile-me", "user-by-id", "users", "statistics"}

\* C19: whenever an account's is_active is returned to a caller (current-user
\* details, user by id, user list, statistics, profile) it equals whether the
\* account's last-activity timestamp lies within the activity window at that
\* moment.
C19_ActiveDerivedOnRead ==
    [][(now' = now /\ resp'.op \in Reads /\ resp'.status = 200) =>
           \A r \in resp'.rows :
               r.is_active = (r.last_login >= now - ActiveLife * Res)
    ]_vars

\* ------------------------------------------------------ claims on tombstones
\* C20: delete and restore_deleted never remove an account record; a delete
\* request of an authorised caller for an existing account sets that account's
\* is_deleted to true, a restore request sets it to false, and both leave every
\* other field of every account unchanged.
C20_OnlyTombstoned ==
    [][/\ Len(users') >= Len(users)
       /\ (Did("delete-user") /\ resp'.status \notin {401, 403, 404}) =>
              users' = [users EXCEPT ![resp'.id].is_deleted = TRUE]
       /\ (Did("delete-account") /\ get_current_user(resp'.token).ok) =>
              users' = [users EXCEPT
                            ![get_current_user(resp'.token).id].is_deleted = TRUE]
       /\ (Did("restore-user") /\ resp'.status \notin {401, 403, 404}) =>
              users' = [users EXCEPT ![resp'.id].is_deleted = FALSE]
    ]_vars

\* ------------------------------------- claims on the live connection registry
\* a subscriber whose generator is still running and has registered its entry
Live(g) == generators[g].pc \in {"sleep", "stats", "clear"}

\* C21: the entry of a subscriber whose generator is still running is never
\* purged from the registry, under any interleaving of stream opens, ticks
\* and change broadcasts.
C21_LiveNeverPurged ==
    \A g \in DOMAIN generators :
        Live(g) => generators[g].key \in DOMAIN state_map

\* the latest change broadcast that marked the entry of key dirty
Owed(key) ==
    LET by == {l \in DOMAIN listeners : key \in listeners[l].marked}
    IN  IF by = {} THEN 0 ELSE CHOOSE l \in by : \A m \in by : m <= l

\* C22: no change notification is lost: a registered subscriber that has
\* drained its dirty flag and sleeps has pushed data computed after every
\* change broadcast that marked it.
C22_NoLostChange ==
    \A g \in DOMAIN generators :
        (/\ generators[g].pc = "sleep"
         /\ generators[g].key \in DOMAIN state_map
         /\ state_map[generators[g].key].update_state = 0)
        => generators[g].pushed >= Owed(generators[g].key)

\* a stream open or a subscriber tick takes a step
GeneratorStep ==
    \E g \in DOMAIN generators' :
        /\ g \in DOMAIN generators => generators'[g] # generators[g]
        /\ generators'[g].pc # "gone"

\* C23: a change broadcast runs as one exclusive critical section: no stream
\* open and no subscriber tick takes a step while a listener is between its
\* first and its last statement.
C23_CriticalSection ==
    [][GeneratorStep => \A l \in DOMAIN listeners : ~Running(l)]_vars

\* C24: an entry whose subscriber performs no tick between two consecutive
\* change broadcasts (the second begun after the first has completed, the
\* subscriber's last tick made before the first began) is gone once the second
\* broadcast has completed.
C24_OnlyTickingKept ==
    \A g \in DOMAIN generators : \A l1, l2 \in DOMAIN listeners :
        (/\ l1 \in listeners[l2].after
         /\ listeners[l1].pc = "done" /\ listeners[l2].pc = "done"
         /\ generators[g].key \in DOMAIN listeners[l1].start
         /\ generators[g].pc \in {"sleep", "gone"}
         /\ generators[g].last_tick < l1)
        => generators[g].key \notin DOMAIN state_map

\* C25: when a change broadcast completes, the entries removed since it
\* started are exactly those whose active flag was 0 when it started, and
\* every entry left has update_state = 1 and active_state = 1.
C25_PurgeThenMark ==
    [][\A l \in DOMAIN listeners :
           (listeners[l].pc # "done" /\ listeners'[l].pc = "done") =>
               /\ DOMAIN listeners[l].start \ DOMAIN state_map' =
                      {k \in DOMAIN listeners[l].start :
                           listeners[l].start[k].active_state = 0}
               /\ \A k \in DOMAIN state_map' : state_map'[k] = Entry(1, 1)
    ]_vars

\* a subscriber whose entry has been removed from the registry
Removed(g) == Live(g) /\ generators[g].key \notin DOMAIN state_map

\* C26: once its entry has been removed, a subscriber's generator changes
\* nothing in the registry and pushes no further update, and the next time it
\* touches its entry it terminates.
C26_RemovedTerminates ==
    [][\A g \in DOMAIN generators :
           (Removed(g) /\ generators'[g] # generators[g]) =>
               /\ state_map' = state_map
               /\ generators'[g].pushed = generators[g].pushed
               /\ generators[g].pc \in {"sleep", "clear"} =>
                      generators'[g].pc \in {"done", "raised", "gone"}
    ]_vars

\* a generator has left its loop on the KeyError of a removed entry
C26_Witness ==
    \E g \in DOMAIN generators :
        /\ generators[g].pc = "done"
        /\ generators[g].key \notin DOMAIN state_map

\* ------------------------------------------ claims on generate_tokens
\* C27: the access_token returned by GoogleOauthServices.generate_tokens(user)
\* is accepted by verify_access_token and its refresh_token is accepted by
\* verify_refresh_token, both yielding user.id.
C27_GeneratedPair ==
    [][Did("generate-tokens") =>
           /\ verify_access_token(resp'.access, CredentialsException, now)
                  = Return(resp'.id)
           /\ verify_refresh_token(resp'.refresh, CredentialsException, now)
                  = Return(resp'.id)
    ]_vars

\* ------------------------------------------------ claims on notifications
\* C28: after the owner's delete request for one of their notifications
\* completes without error, that notification is no longer in the store, so
\* that a later fetch of it fails and the owner's list omits it; a request by
\* a non-owner fails with 403 and deletes nothing.
C28_DeletedIsGone ==
    [][Did("delete-notification") =>
           /\ resp'.status = 204 => resp'.id \notin DOMAIN notifications'
           /\ resp'.status = 403 => notifications' = notifications
    ]_vars

\* ------------------------------------- claims on tombstoned accounts
\* tokens of kind by issued to account i and not yet expired for the codec
Unexpired(i, by) ==
    {m \in minted : m.sub = i /\ m.by = by /\ m.tok.exp >= TimeGm(now)}

\* C29: for an account with is_deleted = true, authenticate_user succeeds with
\* the correct password (and only with it), get_current_user succeeds with
\* an unexpired access token of the account and refresh_access_token with an
\* unexpired refresh token of it, each yielding the account.
C29_DeletedStillAuthenticates ==
    \A i \in DOMAIN users : users[i].is_deleted =>
        /\ \A p \in Passwords :
               /\ authenticate_user(users[i].email, p).ok
                      = verify_password(p, users[i].password)
               /\ authenticate_user(users[i].email, p).ok =>
                      authenticate_user(users[i].email, p).id = i
        /\ \A m \in Unexpired(i, "access") :
               get_current_user(m.tok).ok /\ get_current_user(m.tok).id = i
        /\ \A m \in Unexpired(i, "refresh") :
               refresh_access_token(m.tok).ok /\ refresh_access_token(m.tok).id = i

\* a tombstoned account has just logged in and holds unexpired tokens
C29_Witness ==
    /\ resp.op = "login" /\ resp.status = 200
    /\ users[resp.id].is_deleted
    /\ Unexpired(resp.id, "access") # {}
    /\ Unexpired(resp.id, "refresh") # {}

\* C30: change_password is all-or-nothing: whenever it fails, for any account
\* and any inputs, every stored password hash is what it was before the call.
C30_AllOrNothing ==
    [][(Did("change-password") /\ resp'.status # 200) =>
           \A i \in DOMAIN users : users'[i].password = users[i].password
    ]_vars

====
